---------------------------- MODULE Spec2Model ----------------------------
(***************************************************************************)
(* Soft-DTW (softdtw.py): the sequential engine (compute_softdtw,          *)
(* compute_softdtw_backward), the parallel engine (compute_softdtw_cuda,   *)
(* compute_softdtw_backward_cuda, one worker per row and a barrier per     *)
(* anti-diagonal) and the facade SoftDTW that validates and dispatches.    *)
(*                                                                         *)
(* Arithmetic.  A real v held in R is represented exactly by the extended  *)
(* non-negative rational exp(-v/gamma), written <<n, d>> in lowest terms:  *)
(*     v = 0     is <<1, 1>>        v = +inf  is <<0, 1>>                  *)
(*     v = -inf  is <<1, 0>>        v = NaN   is <<0, 0>>                  *)
(* A cost D[i,j] = c * gamma * ln 2 (c a small natural) is the rational    *)
(* <<1, 2^c>>.  In this representation the log-sum-exp of the forward pass *)
(* is a sum, the exponentials of the backward pass are quotients, and the  *)
(* IEEE rules for inf - inf, 0 * inf and exp(+-inf) are kept.  Entries of  *)
(* E are themselves non-negative reals and use the same pairs directly.    *)
(* The representation holds for every gamma > 0.  Rounding is not modelled.*)
(***************************************************************************)
EXTENDS Integers, Sequences, FiniteSets, TLC

\* ------------------------------------------------------------------ bounds
MaxN == 3
MaxM == 4
MaxBW == 2

\* ------------------------------------------------------- extended rationals
\* Each operation binds its operands once (p ranges over a one-element set)
\* and computes on the pair p.
RECURSIVE GCD(_)
GCD(p) ==
    IF p[2] = 0 THEN p[1]
    ELSE CHOOSE g \in {GCD(q) : q \in {<<p[2], p[1] % p[2]>>}} : TRUE

Zero == <<0, 1>>
One == <<1, 1>>
Inf == <<1, 0>>
NaN == <<0, 0>>

\* the pair p = <<n, d>> in lowest terms; n/0 is Inf, 0/0 is NaN
Lowest(p) ==
    IF p[2] = 0 THEN (IF p[1] = 0 THEN NaN ELSE Inf)
    ELSE CHOOSE r \in {<<p[1] \div g, p[2] \div g>> : g \in {GCD(p)}} : TRUE

Norm(n, d) == CHOOSE r \in {Lowest(p) : p \in {<<n, d>>}} : TRUE

IsNaN(x) == x = NaN
IsFinite(x) == x[2] # 0

\* x + y of the pair p = <<x, y>>, over the least common denominator
AddPair(p) ==
    IF IsNaN(p[1]) \/ IsNaN(p[2]) THEN NaN
    ELSE IF p[1] = Inf \/ p[2] = Inf THEN Inf
    ELSE CHOOSE r \in {Norm(p[1][1] * (p[2][2] \div g) + p[2][1] * (p[1][2] \div g),
                            (p[1][2] \div g) * p[2][2]) : g \in {GCD(<<p[1][2], p[2][2]>>)}} : TRUE

\* x * y of the pair p = <<x, y>>, common factors cancelled before multiplying
MulPair(p) ==
    IF p[1][1] = 0 \/ p[1][2] = 0 \/ p[2][1] = 0 \/ p[2][2] = 0
    THEN Norm(p[1][1] * p[2][1], p[1][2] * p[2][2])
    ELSE CHOOSE r \in {<<(p[1][1] \div g[1]) * (p[2][1] \div g[2]),
                         (p[1][2] \div g[2]) * (p[2][2] \div g[1])>> :
                       g \in {<<GCD(<<p[1][1], p[2][2]>>), GCD(<<p[2][1], p[1][2]>>)>>}} : TRUE

\* x + y on [0, +inf] with NaN
Add(x, y) == CHOOSE r \in {AddPair(p) : p \in {<<x, y>>}} : TRUE

\* x * y on [0, +inf] with NaN; 0 * inf = NaN
Mul(x, y) == CHOOSE r \in {MulPair(p) : p \in {<<x, y>>}} : TRUE

\* x / y on [0, +inf] with NaN; 0/0 = inf/inf = NaN
Div(x, y) == CHOOSE r \in {MulPair(<<p[1], <<p[2][2], p[2][1]>>>>) : p \in {<<x, y>>}} : TRUE

\* ----------------------------------------------------- values stored in R
\* np.inf, -np.inf and 0 as stored in R (the representation exp(-v/gamma))
RPosInf == Zero
RNegInf == Inf
RZero == One

\* IsInfR without the test: every cell visited is set to -inf
IsInfR_Always(x) == TRUE

\* math.isinf / np.isinf of a value of R
IsInfR(x) == x = RPosInf \/ x = RNegInf

\* exp(-D/gamma) of a cost exponent c
CostW(c) == <<1, 2 ^ c>>

\* SoftminCell with the third predecessor left out of the sum
SoftminCell_TwoTerms(c, w0, w1, w2) ==
    IF IsNaN(w0) \/ IsNaN(w1) \/ IsNaN(w2) THEN NaN
    ELSE IF w0 = Inf \/ w1 = Inf \/ w2 = Inf THEN NaN
    ELSE IF w0 = Zero /\ w1 = Zero /\ w2 = Zero THEN NaN
    ELSE Mul(<<1, 2 ^ c>>, Add(w0, w1))

\* softmin plus cost, lines 240-246 / 44-50: with r_k = -R_k/gamma,
\* rmax = max r_k, the value stored is D - gamma*(log(sum exp(r_k - rmax)) + rmax).
\* r_k - rmax is NaN when rmax is infinite and r_k = rmax: all three R_k = +inf
\* (rmax = -inf), or some R_k = -inf (rmax = +inf).
SoftminCell(c, w0, w1, w2) ==
    IF IsNaN(w0) \/ IsNaN(w1) \/ IsNaN(w2) THEN NaN
    ELSE IF w0 = RNegInf \/ w1 = RNegInf \/ w2 = RNegInf THEN NaN
    ELSE IF w0 = RPosInf /\ w1 = RPosInf /\ w2 = RPosInf THEN NaN
    ELSE Mul(CostW(c), Add(Add(w0, w1), w2))

\* exp((R[succ] - R[cell] - D[succ]) / gamma), lines 322-327 / 84-86
ExpWeight(rs, rc, cs) == Mul(Div(rc, rs), CostW(cs))

\* E[i+1,j]*a + E[i,j+1]*b + E[i+1,j+1]*c, lines 328 / 87
AdjointCell(ea, a, eb, b, ec, c) == Add(Add(Mul(ea, a), Mul(eb, b)), Mul(ec, c))

\* ------------------------------------------------------------ grid, band
Cells(n, m) == (0 .. n + 1) \X (0 .. m + 1)
Interior(n, m) == (1 .. n) \X (1 .. m)

Abs(x) == IF x < 0 THEN -x ELSE x
Max(a, b) == IF a > b THEN a ELSE b
Min(a, b) == IF a < b THEN a ELSE b

\* Pruned with the band one cell narrower
Pruned_Inclusive(i, j, w) == 0 < w /\ w <= Abs(i - j)

\* the pruning condition: 0 < bandwidth < |i - j|
Pruned(i, j, w) == 0 < w /\ w < Abs(i - j)

\* a Python index k into an axis of length len
PyIdx(k, len) == IF k < 0 THEN k + len ELSE k

\* TermIndex that always reads the corner, R[:, -2, -2]
TermIndex_Corner(n, m, w) == <<PyIdx(-2, n + 2), PyIdx(-2, m + 2)>>

\* the cell at which align reads its value: <<row index, column index>>
TermIndex(n, m, w) ==
    IF n < m
    THEN IF w >= Abs(n - m) \/ w = 0
         THEN <<PyIdx(-2, n + 2), PyIdx(-2, m + 2)>>
         ELSE <<PyIdx(-2, n + 2), PyIdx(n - m + w - 2, m + 2)>>
    ELSE IF n > m
    THEN IF w >= Abs(n - m) \/ w = 0
         THEN <<PyIdx(-2, n + 2), PyIdx(-2, m + 2)>>
         ELSE <<PyIdx(m - n + w - 2, n + 2), PyIdx(-2, m + 2)>>
    ELSE <<PyIdx(-2, n + 2), PyIdx(-2, m + 2)>>

\* the cell the backward pass seeds with E = 1
SeedIndex(n, m, w) ==
    IF n < m
    THEN IF w >= Abs(n - m) \/ w = 0
         THEN <<PyIdx(-1, n + 2), PyIdx(-1, m + 2)>>
         ELSE <<PyIdx(-1, n + 2), PyIdx(n - m + w - 1, m + 2)>>
    ELSE IF n > m
    THEN IF w >= Abs(n - m) \/ w = 0
         THEN <<PyIdx(-1, n + 2), PyIdx(-1, m + 2)>>
         ELSE <<PyIdx(m - n + w - 1, n + 2), PyIdx(-1, m + 2)>>
    ELSE <<PyIdx(-1, n + 2), PyIdx(-1, m + 2)>>

\* the column and the row the backward pass fills with -inf
InfColumn(n, m, w) ==
    IF n < m /\ ~(w >= Abs(n - m) \/ w = 0)
    THEN PyIdx(n - m + w - 1, m + 2)
    ELSE PyIdx(-1, m + 2)

InfRow(n, m, w) ==
    IF n > m /\ ~(w >= Abs(n - m) \/ w = 0)
    THEN PyIdx(m - n + w - 1, n + 2)
    ELSE PyIdx(-1, n + 2)

\* R = ones * inf; R[0,0] = 0
FreshR(n, m) == [c \in Cells(n, m) |-> IF c = <<0, 0>> THEN RZero ELSE RPosInf]

\* the boundary set-up of the backward pass on R: the -inf column, the -inf
\* row, then the terminal value copied into the seed cell
BoundaryR(r, n, m, w) ==
    LET col == InfColumn(n, m, w)
        row == InfRow(n, m, w)
        r1 == [c \in Cells(n, m) |->
                 IF c[2] = col \/ c[1] = row THEN RNegInf ELSE r[c]]
    IN [r1 EXCEPT ![SeedIndex(n, m, w)] = r1[TermIndex(n, m, w)]]

\* E = zeros; E[seed] = 1
SeedE(n, m, w) == [c \in Cells(n, m) |-> IF c = SeedIndex(n, m, w) THEN One ELSE Zero]

\* the padded cost grid of the backward pass: interior D, border 0
PadD(d, n, m) == [c \in Cells(n, m) |-> IF c \in Interior(n, m) THEN d[c] ELSE 0]

\* E[:, 1:N+1, 1:M+1] scaled by the upstream gradient g
Gradient(e, n, m, g) == [c \in Interior(n, m) |-> Mul(e[c], <<g, 1>>)]


\* -------------------------------------------- host code of the CUDA path
\* the cell _SoftDTWCUDA.forward returns
TermIndexCuda(n, m, w) ==
    IF n < m
    THEN IF w >= Abs(n - m) \/ w = 0
         THEN <<PyIdx(-2, n + 2), PyIdx(-2, m + 2)>>
         ELSE <<PyIdx(-2, n + 2), PyIdx(n - m + w - 2, m + 2)>>
    ELSE IF n > m
    THEN IF w >= Abs(n - m) \/ w = 0
         THEN <<PyIdx(-2, n + 2), PyIdx(-2, m + 2)>>
         ELSE <<PyIdx(m - n + w - 2, n + 2), PyIdx(-2, m + 2)>>
    ELSE <<PyIdx(-2, n + 2), PyIdx(-2, m + 2)>>

\* the cell _SoftDTWCUDA.backward seeds with E = 1
SeedIndexCuda(n, m, w) ==
    IF n < m
    THEN IF w >= Abs(n - m) \/ w = 0
         THEN <<PyIdx(-1, n + 2), PyIdx(-1, m + 2)>>
         ELSE <<PyIdx(-1, n + 2), PyIdx(n - m + w - 1, m + 2)>>
    ELSE IF n > m
    THEN IF w >= Abs(n - m) \/ w = 0
         THEN <<PyIdx(-1, n + 2), PyIdx(-1, m + 2)>>
         ELSE <<PyIdx(m - n + w - 1, n + 2), PyIdx(-1, m + 2)>>
    ELSE <<PyIdx(-1, n + 2), PyIdx(-1, m + 2)>>

\* the boundary set-up of _SoftDTWCUDA.backward on R
BoundaryRCuda(r, n, m, w) ==
    LET narrow == ~(w >= Abs(n - m) \/ w = 0)
        col == IF n < m /\ narrow THEN PyIdx(n - m + w - 1, m + 2) ELSE PyIdx(-1, m + 2)
        row == IF n > m /\ narrow THEN PyIdx(m - n + w - 1, n + 2) ELSE PyIdx(-1, n + 2)
        r1 == [c \in Cells(n, m) |->
                 IF c[2] = col \/ c[1] = row THEN RNegInf ELSE r[c]]
    IN [r1 EXCEPT ![<<row, col>>] = r1[<<row - 1, col - 1>>]]

SeedECuda(n, m, w) ==
    [c \in Cells(n, m) |-> IF c = SeedIndexCuda(n, m, w) THEN One ELSE Zero]

\* NPasses one pass short
NPasses_Short(n, m) == 2 * Max(n, m) - 2

\* threads_per_block = max(N, M); n_passes = 2 * threads_per_block - 1
ThreadsPerBlock(n, m) == Max(n, m)
NPasses(n, m) == 2 * ThreadsPerBlock(n, m) - 1

\* -------------------------------------------------- the two CUDA kernels
\* J = max(0, min(p - tid, max_j - 1))
ClampJ(p, tid, maxj) == Max(0, Min(p - tid, maxj - 1))

\* OnDiagonal without the test I + J == p
OnDiagonal_NoEq(p, tid, maxi, maxj) ==
    /\ tid < maxi
    /\ Max(0, Min(p - tid, maxj - 1)) < maxj

\* I + J == p and (I < max_i and J < max_j)
OnDiagonal(p, tid, maxi, maxj) ==
    /\ tid + ClampJ(p, tid, maxj) = p
    /\ tid < maxi
    /\ ClampJ(p, tid, maxj) < maxj

\* the cell <<i, j>> of worker tid in the pass of frontier index p
CellOf(p, tid, maxj) == <<tid + 1, ClampJ(p, tid, maxj) + 1>>

\* rev_p = n_passes - p - 1
RevP(p, npasses) == npasses - p - 1

\* InBand with the band one cell narrower, and one cell wider
InBand_Strict(i, j, w) == ~(Abs(i - j) >= w /\ w > 0)
InBand_Wide(i, j, w) == ~(Abs(i - j) > w + 1 /\ w > 0)

\* not (abs(i - j) > bandwidth > 0)
InBand(i, j, w) == ~(Abs(i - j) > w /\ w > 0)

\* ---------------------------------------------------------------- inputs
\* cost matrices (exponents c of D = c * gamma * ln 2), by pattern
CostPattern(k, i, j) ==
    CASE k = 0 -> 0
      [] k = 1 -> 1
      [] k = 2 -> (i + j) % 2
      [] OTHER -> IF i = j THEN 0 ELSE 1

CostMatrices(n, m) ==
    {[c \in Interior(n, m) |-> CostPattern(k, c[1], c[2])] : k \in 0 .. 3}

GradOutputs == {1, 2}

VARIABLES
    N, M, bandwidth, D,         \* the call: D is N x M, bandwidth >= 0
    pc,                         \* where the run is
    Rg, Eg, Vg, gradg,          \* CUDA path: grids, value returned, gradient returned
    Rgret,                      \* Rg as _SoftDTWCUDA.forward returned it
    pass, wst, reg,             \* per worker: loop index p, position, pending value
    rd, wr,                     \* per worker: cells read / written since the last barrier
    storedF, storedB,           \* per interior cell: frontier indices at which it was stored
    barriers,                   \* barriers completed by the running kernel
    grad_output,                \* the upstream gradient
    R, E, V, grad,              \* CPU path: grids, value returned, gradient returned
    Rret,                       \* R as _SoftDTW.forward returned it
    ci, cj,                     \* CPU path: loop indices i, j
    x_shape, y_shape,           \* SoftDTW.forward: shapes <<batch, length, dims>> of X and Y
    gamma, use_cuda, normalize, \* SoftDTW: fields set by __init__
    func, printed,              \* _get_func_dtw: implementation selected, notice printed
    todo, grids                 \* distance matrices still to align; grids allocated so far

vars == <<N, M, bandwidth, D, pc, Rg, Eg, Vg, gradg, Rgret, pass, wst, reg, rd, wr,
          storedF, storedB, barriers, grad_output, R, E, V, grad, Rret, ci, cj,
          x_shape, y_shape, gamma, use_cuda, normalize, func, printed, todo, grids>>

facade == <<x_shape, y_shape, gamma, use_cuda, normalize, func, printed, todo, grids>>
inputs == <<N, M, bandwidth, D>>
cudaGrids == <<Rg, Eg, Vg, gradg, Rgret>>
cudaWorkers == <<pass, wst, reg, rd, wr>>
cudaHist == <<storedF, storedB, barriers>>
cpuVars == <<R, E, V, grad, Rret, ci, cj>>

Workers == 0 .. ThreadsPerBlock(N, M) - 1
None == <<>>

Init ==
    /\ N \in 1 .. MaxN
    /\ M \in 1 .. MaxM
    /\ bandwidth \in 0 .. MaxBW
    /\ D \in CostMatrices(N, M)
    /\ pc = "cuda_forward"
    /\ Rg = None /\ Eg = None /\ Vg = None /\ gradg = None /\ Rgret = None
    /\ pass = None /\ wst = None /\ reg = None /\ rd = None /\ wr = None
    /\ storedF = None /\ storedB = None /\ barriers = 0
    /\ grad_output = 1
    /\ R = None /\ E = None /\ V = None /\ grad = None /\ Rret = None
    /\ ci = 0 /\ cj = 0
    /\ x_shape = <<1, N, 1>> /\ y_shape = <<1, M, 1>>
    /\ gamma = 1 /\ use_cuda = TRUE /\ normalize = FALSE
    /\ func = "none" /\ printed = FALSE /\ todo = <<>> /\ grids = <<>>

\* the launch of a kernel: every worker at p = 0
Launch ==
    /\ pass' = [t \in Workers |-> 0]
    /\ wst' = [t \in Workers |-> "run"]
    /\ reg' = [t \in Workers |-> None]
    /\ rd' = [t \in Workers |-> {}]
    /\ wr' = [t \in Workers |-> {}]
    /\ barriers' = 0

KernelDone == \A t \in Workers : pass[t] = NPasses(N, M)

\* _SoftDTWCUDA.forward up to the kernel launch
CudaForward ==
    /\ pc = "cuda_forward"
    /\ Rg' = FreshR(N, M)
    /\ Launch
    /\ storedF' = [c \in Interior(N, M) |-> <<>>]
    /\ storedB' = [c \in Interior(N, M) |-> <<>>]
    /\ pc' = "cuda_fwd_kernel"
    /\ UNCHANGED <<facade, inputs, Eg, Vg, gradg, Rgret, grad_output, cpuVars>>

\* compute_softdtw_cuda, worker tid: not on the frontier, or outside the band
FwdSkip(tid) ==
    /\ pc = "cuda_fwd_kernel"
    /\ wst[tid] = "run" /\ pass[tid] < NPasses(N, M)
    /\ LET p == pass[tid]
           c == CellOf(p, tid, M)
       IN ~(OnDiagonal(p, tid, N, M) /\ InBand(c[1], c[2], bandwidth))
    /\ wst' = [wst EXCEPT ![tid] = "wait"]
    /\ UNCHANGED <<facade, inputs, pc, cudaGrids, pass, reg, rd, wr, cudaHist, grad_output, cpuVars>>

\* compute_softdtw_cuda, worker tid: reads the three predecessors, lines 44-49
FwdLoad(tid) ==
    /\ pc = "cuda_fwd_kernel"
    /\ wst[tid] = "run" /\ pass[tid] < NPasses(N, M)
    /\ LET p == pass[tid]
           c == CellOf(p, tid, M)
           i == c[1]
           j == c[2]
       IN /\ OnDiagonal(p, tid, N, M) /\ InBand(i, j, bandwidth)
          /\ reg' = [reg EXCEPT ![tid] =
                       SoftminCell(D[<<i, j>>], Rg[<<i - 1, j - 1>>],
                                   Rg[<<i - 1, j>>], Rg[<<i, j - 1>>])]
          /\ rd' = [rd EXCEPT ![tid] = @ \cup
                       {<<"R", <<i - 1, j - 1>>>>, <<"R", <<i - 1, j>>>>, <<"R", <<i, j - 1>>>>}]
    /\ wst' = [wst EXCEPT ![tid] = "loaded"]
    /\ UNCHANGED <<facade, inputs, pc, cudaGrids, pass, wr, cudaHist, grad_output, cpuVars>>

\* compute_softdtw_cuda, worker tid: R[b, i, j] = ..., line 50
FwdStore(tid) ==
    /\ pc = "cuda_fwd_kernel"
    /\ wst[tid] = "loaded"
    /\ LET p == pass[tid]
           c == CellOf(p, tid, M)
       IN /\ Rg' = [Rg EXCEPT ![c] = reg[tid]]
          /\ wr' = [wr EXCEPT ![tid] = @ \cup {<<"R", c>>}]
          /\ storedF' = [storedF EXCEPT ![c] = Append(@, p)]
    /\ wst' = [wst EXCEPT ![tid] = "wait"]
    /\ UNCHANGED <<facade, inputs, pc, Eg, Vg, gradg, Rgret, pass, reg, rd, storedB, barriers,
                   grad_output, cpuVars>>

\* cuda.syncthreads(): released once every worker of the block has arrived
SyncThreads ==
    /\ pc \in {"cuda_fwd_kernel", "cuda_bwd_kernel"}
    /\ \A t \in Workers : wst[t] = "wait"
    /\ pass' = [t \in Workers |-> pass[t] + 1]
    /\ wst' = [t \in Workers |-> "run"]
    /\ rd' = [t \in Workers |-> {}]
    /\ wr' = [t \in Workers |-> {}]
    /\ barriers' = barriers + 1
    /\ UNCHANGED <<facade, inputs, pc, cudaGrids, reg, storedF, storedB, grad_output, cpuVars>>

\* _SoftDTWCUDA.forward after the kernel: the value returned, lines 125-141
CudaForwardReturn ==
    /\ pc = "cuda_fwd_kernel"
    /\ KernelDone
    /\ Vg' = Rg[TermIndexCuda(N, M, bandwidth)]
    /\ Rgret' = Rg
    /\ pc' = "cuda_backward"
    /\ UNCHANGED <<facade, inputs, Rg, Eg, gradg, cudaWorkers, cudaHist, grad_output, cpuVars>>

\* _SoftDTWCUDA.backward up to the kernel launch, lines 158-213
CudaBackward ==
    /\ pc = "cuda_backward"
    /\ Rg' = BoundaryRCuda(Rg, N, M, bandwidth)
    /\ Eg' = SeedECuda(N, M, bandwidth)
    /\ Launch
    /\ pc' = "cuda_bwd_kernel"
    /\ UNCHANGED <<facade, inputs, Vg, gradg, Rgret, storedF, storedB, grad_output, cpuVars>>

\* compute_softdtw_backward_cuda, worker tid: not on the frontier
BwdSkip(tid) ==
    /\ pc = "cuda_bwd_kernel"
    /\ wst[tid] = "run" /\ pass[tid] < NPasses(N, M)
    /\ ~OnDiagonal(RevP(pass[tid], NPasses(N, M)), tid, N, M)
    /\ wst' = [wst EXCEPT ![tid] = "wait"]
    /\ UNCHANGED <<facade, inputs, pc, cudaGrids, pass, reg, rd, wr, cudaHist, grad_output, cpuVars>>

\* compute_softdtw_backward_cuda, worker tid: if isinf(R[i,j]): R[i,j] = -inf,
\* lines 79-80, then the band test of line 83
BwdFlip(tid) ==
    /\ pc = "cuda_bwd_kernel"
    /\ wst[tid] = "run" /\ pass[tid] < NPasses(N, M)
    /\ LET rp == RevP(pass[tid], NPasses(N, M))
           c == CellOf(rp, tid, M)
       IN /\ OnDiagonal(rp, tid, N, M)
          /\ rd' = [rd EXCEPT ![tid] = @ \cup {<<"R", c>>}]
          /\ IF IsInfR(Rg[c])
             THEN /\ Rg' = [Rg EXCEPT ![c] = RNegInf]
                  /\ wr' = [wr EXCEPT ![tid] = @ \cup {<<"R", c>>}]
             ELSE UNCHANGED <<Rg, wr>>
          /\ wst' = [wst EXCEPT ![tid] =
                       IF InBand(c[1], c[2], bandwidth) THEN "flipped" ELSE "wait"]
    /\ UNCHANGED <<facade, inputs, pc, Eg, Vg, gradg, Rgret, pass, reg, cudaHist, grad_output, cpuVars>>

\* compute_softdtw_backward_cuda, worker tid: reads R, D and E of the three
\* successors, lines 84-87
BwdLoad(tid) ==
    /\ pc = "cuda_bwd_kernel"
    /\ wst[tid] = "flipped"
    /\ LET rp == RevP(pass[tid], NPasses(N, M))
           c == CellOf(rp, tid, M)
           i == c[1]
           j == c[2]
           Dp == PadD(D, N, M)
           a == ExpWeight(Rg[<<i + 1, j>>], Rg[c], Dp[<<i + 1, j>>])
           b == ExpWeight(Rg[<<i, j + 1>>], Rg[c], Dp[<<i, j + 1>>])
           cc == ExpWeight(Rg[<<i + 1, j + 1>>], Rg[c], Dp[<<i + 1, j + 1>>])
       IN /\ reg' = [reg EXCEPT ![tid] =
                       AdjointCell(Eg[<<i + 1, j>>], a, Eg[<<i, j + 1>>], b,
                                   Eg[<<i + 1, j + 1>>], cc)]
          /\ rd' = [rd EXCEPT ![tid] = @ \cup
                       {<<"R", c>>, <<"R", <<i + 1, j>>>>, <<"R", <<i, j + 1>>>>,
                        <<"R", <<i + 1, j + 1>>>>, <<"E", <<i + 1, j>>>>,
                        <<"E", <<i, j + 1>>>>, <<"E", <<i + 1, j + 1>>>>}]
    /\ wst' = [wst EXCEPT ![tid] = "loaded"]
    /\ UNCHANGED <<facade, inputs, pc, cudaGrids, pass, wr, cudaHist, grad_output, cpuVars>>

\* compute_softdtw_backward_cuda, worker tid: E[k, i, j] = ..., line 87
BwdStore(tid) ==
    /\ pc = "cuda_bwd_kernel"
    /\ wst[tid] = "loaded"
    /\ LET rp == RevP(pass[tid], NPasses(N, M))
           c == CellOf(rp, tid, M)
       IN /\ Eg' = [Eg EXCEPT ![c] = reg[tid]]
          /\ wr' = [wr EXCEPT ![tid] = @ \cup {<<"E", c>>}]
          /\ storedB' = [storedB EXCEPT ![c] = Append(@, rp)]
    /\ wst' = [wst EXCEPT ![tid] = "wait"]
    /\ UNCHANGED <<facade, inputs, pc, Rg, Vg, gradg, Rgret, pass, reg, rd, storedF, barriers,
                   grad_output, cpuVars>>

\* _SoftDTWCUDA.backward after the kernel, lines 214-215
CudaBackwardReturn ==
    /\ pc = "cuda_bwd_kernel"
    /\ KernelDone
    /\ \E g \in GradOutputs :
         /\ grad_output' = g
         /\ gradg' = Gradient(Eg, N, M, g)
    /\ pc' = "cpu_forward"
    /\ UNCHANGED <<facade, inputs, Rg, Eg, Vg, Rgret, cudaWorkers, cudaHist, cpuVars>>

\* ----------------------------------------------------------- the CPU path
\* the loop indices after cell <<i, j>> of "for j ...: for i ..." (forward)
NextFwd(i, j, n) == IF i < n THEN <<i + 1, j>> ELSE <<1, j + 1>>

\* the loop indices after cell <<i, j>> of the reversed loops (backward)
NextBwd(i, j, n) == IF i > 1 THEN <<i - 1, j>> ELSE <<n, j - 1>>

\* _SoftDTW.forward calling compute_softdtw: the grid is allocated, lines 227-231
CpuForward ==
    /\ pc = "cpu_forward"
    /\ R' = FreshR(N, M)
    /\ ci' = 1 /\ cj' = 1
    /\ pc' = "cpu_fwd_loop"
    /\ UNCHANGED <<facade, inputs, cudaGrids, cudaWorkers, cudaHist, grad_output, E, V, grad, Rret>>

\* one iteration of the loops of compute_softdtw, lines 233-246
ComputeSoftdtwIter ==
    /\ pc = "cpu_fwd_loop"
    /\ cj <= M
    /\ IF Pruned(ci, cj, bandwidth)
       THEN UNCHANGED R
       ELSE R' = [R EXCEPT ![<<ci, cj>>] =
                    SoftminCell(D[<<ci, cj>>], R[<<ci - 1, cj - 1>>],
                                R[<<ci - 1, cj>>], R[<<ci, cj - 1>>])]
    /\ ci' = NextFwd(ci, cj, N)[1]
    /\ cj' = NextFwd(ci, cj, N)[2]
    /\ UNCHANGED <<facade, inputs, pc, cudaGrids, cudaWorkers, cudaHist, grad_output, E, V, grad, Rret>>

\* _SoftDTW.forward after compute_softdtw: the value returned, lines 349-370
CpuForwardReturn ==
    /\ pc = "cpu_fwd_loop"
    /\ cj > M
    /\ V' = R[TermIndex(N, M, bandwidth)]
    /\ Rret' = R
    /\ pc' = "cpu_backward"
    /\ UNCHANGED <<facade, inputs, cudaGrids, cudaWorkers, cudaHist, grad_output, R, E, grad, ci, cj>>

\* compute_softdtw_backward up to its loops, lines 258-309
CpuBackward ==
    /\ pc = "cpu_backward"
    /\ E' = SeedE(N, M, bandwidth)
    /\ R' = BoundaryR(R, N, M, bandwidth)
    /\ ci' = N /\ cj' = M
    /\ pc' = "cpu_bwd_loop"
    /\ UNCHANGED <<facade, inputs, cudaGrids, cudaWorkers, cudaHist, grad_output, V, grad, Rret>>

\* one iteration of the loops of compute_softdtw_backward, lines 312-328
ComputeSoftdtwBackwardIter ==
    /\ pc = "cpu_bwd_loop"
    /\ cj >= 1
    /\ LET c == <<ci, cj>>
           R1 == IF IsInfR(R[c]) THEN [R EXCEPT ![c] = RNegInf] ELSE R
           Dp == PadD(D, N, M)
           a == ExpWeight(R1[<<ci + 1, cj>>], R1[c], Dp[<<ci + 1, cj>>])
           b == ExpWeight(R1[<<ci, cj + 1>>], R1[c], Dp[<<ci, cj + 1>>])
           cc == ExpWeight(R1[<<ci + 1, cj + 1>>], R1[c], Dp[<<ci + 1, cj + 1>>])
       IN /\ R' = R1
          /\ IF Pruned(ci, cj, bandwidth)
             THEN UNCHANGED E
             ELSE E' = [E EXCEPT ![c] =
                          AdjointCell(E[<<ci + 1, cj>>], a, E[<<ci, cj + 1>>], b,
                                      E[<<ci + 1, cj + 1>>], cc)]
    /\ ci' = NextBwd(ci, cj, N)[1]
    /\ cj' = NextBwd(ci, cj, N)[2]
    /\ UNCHANGED <<facade, inputs, pc, cudaGrids, cudaWorkers, cudaHist, grad_output, V, grad, Rret>>

\* _SoftDTW.backward after compute_softdtw_backward, lines 330 and 381-383
CpuBackwardReturn ==
    /\ pc = "cpu_bwd_loop"
    /\ cj < 1
    /\ grad' = Gradient(E, N, M, grad_output)
    /\ pc' = "done"
    /\ UNCHANGED <<facade, inputs, cudaGrids, cudaWorkers, cudaHist, grad_output, R, E, V, Rret, ci, cj>>

Next ==
    \/ CudaForward
    \/ \E t \in Workers : FwdSkip(t)
    \/ \E t \in Workers : FwdLoad(t)
    \/ \E t \in Workers : FwdStore(t)
    \/ SyncThreads
    \/ CudaForwardReturn
    \/ CudaBackward
    \/ \E t \in Workers : BwdSkip(t)
    \/ \E t \in Workers : BwdFlip(t)
    \/ \E t \in Workers : BwdLoad(t)
    \/ \E t \in Workers : BwdStore(t)
    \/ CudaBackwardReturn
    \/ CpuForward
    \/ ComputeSoftdtwIter
    \/ CpuForwardReturn
    \/ CpuBackward
    \/ ComputeSoftdtwBackwardIter
    \/ CpuBackwardReturn

Spec == Init /\ [][Next]_vars

\* ------------------------------------------------------------ the facade
\* the largest block the CUDA path is given
MaxBlockSize == 1024

MaxBatch == 2
MaxDims == 2
Lengths == {1, 2, MaxBlockSize, MaxBlockSize + 1}
Gammas == {-1, 0, 1}

\* ShapesMatch without the test of the feature dimensions
ShapesMatch_BatchOnly(xs, ys) == xs[1] = ys[1]

\* assert bx == by; assert dx == dy
ShapesMatch(xs, ys) == xs[1] = ys[1] /\ xs[3] = ys[3]

\* UseCuda testing the first length only
UseCuda_FirstLengthOnly(uc, lx, ly) == uc /\ ~(lx > MaxBlockSize)

\* use_cuda after the length test of _get_func_dtw
UseCuda(uc, lx, ly) == uc /\ ~(lx > MaxBlockSize \/ ly > MaxBlockSize)

\* the distance matrices SoftDTW.forward aligns, as <<n, m>>, in call order
Matrices(xs, ys, norm) ==
    IF norm THEN <<<<xs[2], ys[2]>>, <<xs[2], xs[2]>>, <<ys[2], ys[2]>>>>
    ELSE <<<<xs[2], ys[2]>>>>

\* the shape of R: (B, N + 2, M + 2)
GridShape(b, nm) == <<b, nm[1] + 2, nm[2] + 2>>

kernelVars == <<N, M, bandwidth, D, Rg, Eg, Vg, gradg, Rgret, pass, wst, reg, rd, wr,
                storedF, storedB, barriers, grad_output, R, E, V, grad, Rret, ci, cj>>

FacadeInit ==
    /\ x_shape \in (1 .. MaxBatch) \X Lengths \X (1 .. MaxDims)
    /\ y_shape \in (1 .. MaxBatch) \X Lengths \X (1 .. MaxDims)
    /\ gamma \in Gammas
    /\ use_cuda \in BOOLEAN
    /\ normalize \in BOOLEAN
    /\ func = "none" /\ printed = FALSE /\ todo = <<>> /\ grids = <<>>
    /\ pc = "call"
    /\ N = 1 /\ M = 1 /\ bandwidth = 0 /\ D = None
    /\ Rg = None /\ Eg = None /\ Vg = None /\ gradg = None /\ Rgret = None
    /\ pass = None /\ wst = None /\ reg = None /\ rd = None /\ wr = None
    /\ storedF = None /\ storedB = None /\ barriers = 0
    /\ grad_output = 1
    /\ R = None /\ E = None /\ V = None /\ grad = None /\ Rret = None
    /\ ci = 0 /\ cj = 0

\* SoftDTW._get_func_dtw, lines 411-425
GetFuncDtw ==
    /\ pc = "call"
    /\ IF ~ShapesMatch(x_shape, y_shape)
       THEN /\ pc' = "AssertionError"
            /\ UNCHANGED <<func, printed>>
       ELSE /\ printed' = (use_cuda /\ ~UseCuda(use_cuda, x_shape[2], y_shape[2]))
            /\ func' = IF UseCuda(use_cuda, x_shape[2], y_shape[2])
                       THEN "_SoftDTWCUDA" ELSE "_SoftDTW"
            /\ pc' = "selected"
    /\ UNCHANGED <<kernelVars, x_shape, y_shape, gamma, use_cuda, normalize, todo, grids>>

\* SoftDTW.forward: the distance matrices, lines 452-456 and 464
CalcDistanceMatrices ==
    /\ pc = "selected"
    /\ todo' = Matrices(x_shape, y_shape, normalize)
    /\ pc' = "func_dtw"
    /\ UNCHANGED <<kernelVars, x_shape, y_shape, gamma, use_cuda, normalize, func, printed,
                   grids>>

\* func_dtw(D, gamma, bandwidth): R is allocated, line 230 or line 114
FuncDtwAllocate ==
    /\ pc = "func_dtw"
    /\ grids' = Append(grids, <<func, GridShape(x_shape[1], Head(todo))>>)
    /\ pc' = "recurrence"
    /\ UNCHANGED <<kernelVars, x_shape, y_shape, gamma, use_cuda, normalize, func, printed,
                   todo>>

\* func_dtw(D, gamma, bandwidth): the recurrence runs and the value is returned;
\* compute_softdtw divides by gamma (line 240), the kernel does not raise
FuncDtwRun ==
    /\ pc = "recurrence"
    /\ IF gamma = 0 /\ func = "_SoftDTW"
       THEN /\ pc' = "ZeroDivisionError"
            /\ UNCHANGED todo
       ELSE /\ todo' = Tail(todo)
            /\ pc' = IF Tail(todo) = <<>> THEN "returned" ELSE "func_dtw"
    /\ UNCHANGED <<kernelVars, x_shape, y_shape, gamma, use_cuda, normalize, func, printed,
                   grids>>

FacadeNext == GetFuncDtw \/ CalcDistanceMatrices \/ FuncDtwAllocate \/ FuncDtwRun

FacadeSpec == FacadeInit /\ [][FacadeNext]_vars

\* ------------------------------------------------------------- properties
PcOrder == <<"cuda_forward", "cuda_fwd_kernel", "cuda_backward", "cuda_bwd_kernel",
             "cpu_forward", "cpu_fwd_loop", "cpu_backward", "cpu_bwd_loop", "done">>
PhaseNo(p) == CHOOSE k \in 1 .. Len(PcOrder) : PcOrder[k] = p
Reached(p) == PhaseNo(pc) >= PhaseNo(p)

\* the terminal cell as the specification states it
TerminalCell(n, m, w) ==
    IF n = m \/ w = 0 \/ w >= Abs(n - m) THEN <<n, m>>
    ELSE IF n < m THEN <<n, n + w>>
    ELSE <<m + w, m>>

OnePast(c) == <<c[1] + 1, c[2] + 1>>

\* the band as the specification states it
Inactive(i, j, w) == w > 0 /\ Abs(i - j) > w

CudaSetUpState ==
    pc = "cuda_bwd_kernel" /\ barriers = 0 /\ \A t \in Workers : wst[t] = "run"
CpuSetUpState == pc = "cpu_bwd_loop" /\ ci = N /\ cj = M

\* C1: align and gradient of both engines use the terminal cell (i*, j*) of the
\* specification: align returns R[i*, j*]; gradient seeds E = 1 at (i*+1, j*+1)
\* and nowhere else, and copies R[i*, j*] into R[i*+1, j*+1].
C1_SameTerminal ==
    LET t == TerminalCell(N, M, bandwidth)
        s == OnePast(t)
    IN /\ Reached("cuda_backward") => Vg = Rgret[t]
       /\ Reached("cuda_bwd_kernel") => Eg[s] = One /\ Rg[s] = Rgret[t]
       /\ CudaSetUpState => \A c \in Cells(N, M) \ {s} : Eg[c] = Zero
       /\ Reached("cpu_backward") => V = Rret[t]
       /\ Reached("cpu_bwd_loop") => E[s] = One /\ R[s] = Rret[t]
       /\ CpuSetUpState => \A c \in Cells(N, M) \ {s} : E[c] = Zero

\* N = 2, M = 4, bandwidth = 1 ends with the value read at (2, 3) and the seed
\* at (3, 4), not at the corner
C1_Witness ==
    /\ pc = "done" /\ N = 2 /\ M = 4 /\ bandwidth = 1
    /\ V = Rret[<<2, 3>>] /\ Vg = V /\ V # Rret[<<2, 4>>]
    /\ E[<<3, 4>>] = One /\ Eg[<<3, 4>>] = One /\ E[<<3, 5>>] = Zero
    /\ R[<<3, 4>>] = V /\ Rg[<<3, 4>>] = V

\* C2: the parallel engine, under every interleaving of its workers, and the
\* sequential engine end with the same R (as align returned it and after the
\* backward pass), the same value and the same E and gradient.
C2_EnginesAgree ==
    /\ Reached("cpu_backward") => Rret = Rgret /\ V = Vg
    /\ pc = "done" => R = Rg /\ E = Eg /\ grad = gradg

C2_Witness ==
    /\ pc = "done" /\ N = 2 /\ M = 3 /\ bandwidth = 1
    /\ R = Rg /\ E = Eg /\ V = Vg
    /\ \E c \in Interior(N, M) : D[c] # 0
    /\ \E c \in Interior(N, M) : E[c] \notin {Zero, One}

ZeroCost == \A c \in Interior(N, M) : D[c] = 0

\* the number of in-band monotone paths from (1, 1) to (i, j)
RECURSIVE PathCount(_, _, _)
PathCount(i, j, w) ==
    IF i < 1 \/ j < 1 \/ Inactive(i, j, w) THEN 0
    ELSE IF i = 1 /\ j = 1 THEN 1
    ELSE PathCount(i - 1, j - 1, w) + PathCount(i - 1, j, w) + PathCount(i, j - 1, w)

\* C3 as stated: align of the all-zero cost matrix returns 0
C3_ZeroCostValueIsZero ==
    ZeroCost => /\ Reached("cuda_backward") => Vg = RZero
                /\ Reached("cpu_backward") => V = RZero

\* C3 amended: align of the all-zero cost matrix returns -gamma * ln P, P the
\* number of in-band monotone paths from (1, 1) to the terminal cell; the value
\* is 0 exactly when min(N, M) = 1 and is negative otherwise.
C3_ZeroCostValueIsPathCount ==
    LET t == TerminalCell(N, M, bandwidth)
        P == PathCount(t[1], t[2], bandwidth)
    IN ZeroCost =>
         /\ Reached("cuda_backward") => Vg = <<P, 1>>
         /\ Reached("cpu_backward") => V = <<P, 1>> /\ (V = RZero <=> Min(N, M) = 1)
         /\ P >= 1 /\ (Min(N, M) >= 2 => P >= 3)

C3_Witness ==
    /\ pc = "done" /\ ZeroCost /\ N = 2 /\ M = 2
    /\ V = <<3, 1>> /\ Vg = <<3, 1>>

\* some anti-diagonal p in 2..N+M has every in-grid cell inactive
EmptyDiagonal(n, m, w) ==
    /\ w > 0
    /\ \E p \in 2 .. n + m :
         \A i \in 1 .. n : (1 <= p - i /\ p - i <= m) => Inactive(i, p - i, w)

\* C6 as stated: with an all-inactive anti-diagonal align returns +infinity
C6_EmptyDiagonalGivesInf ==
    EmptyDiagonal(N, M, bandwidth) =>
        /\ Reached("cuda_backward") => Vg = RPosInf
        /\ Reached("cpu_backward") => V = RPosInf

\* C6 amended: with an all-inactive anti-diagonal the corner R[N, M] is
\* +infinity, but align reads the offset terminal cell, which is inside the
\* band, and returns a finite value; it never returns +infinity or NaN.
C6_EmptyDiagonalGivesFinite ==
    EmptyDiagonal(N, M, bandwidth) =>
        /\ TerminalCell(N, M, bandwidth) # <<N, M>>
        /\ Reached("cuda_backward") =>
             IsFinite(Vg) /\ Vg # RPosInf /\ Rgret[<<N, M>>] = RPosInf
        /\ Reached("cpu_backward") =>
             IsFinite(V) /\ V # RPosInf /\ Rret[<<N, M>>] = RPosInf

C6_Witness ==
    /\ pc = "cpu_backward" /\ N = 3 /\ M = 1 /\ bandwidth = 1
    /\ EmptyDiagonal(N, M, bandwidth)
    /\ IsFinite(V) /\ V # RPosInf /\ Rret[<<3, 1>>] = RPosInf

\* C7 as stated: the backward pass writes R only in the padded row N+1 and
\* the padded column M+1, so every other cell keeps the value align returned
C7_OnlyPaddingWritten ==
    \A c \in Cells(N, M) :
        (c[1] # N + 1 /\ c[2] # M + 1) =>
            /\ Reached("cuda_bwd_kernel") => Rg[c] = Rgret[c]
            /\ Reached("cpu_bwd_loop") => R[c] = Rret[c]

\* C7 amended: the backward pass changes R only in the row and the column one
\* past the terminal cell and at interior cells that held +infinity, which
\* become -infinity; every interior cell that held a finite value keeps it.
C7_FiniteInteriorKept ==
    LET s == OnePast(TerminalCell(N, M, bandwidth))
        Kept(r, r0, c) ==
            \/ r[c] = r0[c]
            \/ c[1] = s[1] \/ c[2] = s[2]
            \/ c \in Interior(N, M) /\ r0[c] = RPosInf /\ r[c] = RNegInf
        Final(r0, c) == IF r0[c] = RPosInf THEN RNegInf ELSE r0[c]
    IN /\ Reached("cuda_bwd_kernel") =>
            /\ \A c \in Cells(N, M) : Kept(Rg, Rgret, c)
            /\ \A c \in Interior(N, M) : Rgret[c] # RPosInf => Rg[c] = Rgret[c]
       /\ Reached("cpu_forward") => \A c \in Interior(N, M) : Rg[c] = Final(Rgret, c)
       /\ Reached("cpu_bwd_loop") =>
            /\ \A c \in Cells(N, M) : Kept(R, Rret, c)
            /\ \A c \in Interior(N, M) : Rret[c] # RPosInf => R[c] = Rret[c]
       /\ pc = "done" => \A c \in Interior(N, M) : R[c] = Final(Rret, c)

C7_Witness ==
    /\ pc = "done" /\ N = 3 /\ M = 3 /\ bandwidth = 1
    /\ Rret[<<1, 3>>] = RPosInf /\ R[<<1, 3>>] = RNegInf /\ Rg[<<1, 3>>] = RNegInf
    /\ R[<<2, 2>>] = Rret[<<2, 2>>] /\ IsFinite(R[<<2, 2>>])

InKernel == pc \in {"cuda_fwd_kernel", "cuda_bwd_kernel"}

\* C8: between two barriers worker tid writes only cells of row tid + 1, no two
\* workers write the same cell, and no cell a worker reads, other than the
\* cell it writes itself, is written by any worker.
C8_RaceFree ==
    InKernel =>
        \A t \in Workers :
            /\ \A a \in wr[t] : a[2][1] = t + 1
            /\ \A a \in rd[t] \cap wr[t] : a[2][1] = t + 1 /\ a[2][1] + a[2][2] - 2 \in
                   {pass[t], RevP(pass[t], 2 * Max(N, M) - 1)}
            /\ \A u \in Workers \ {t} :
                   wr[t] \cap wr[u] = {} /\ rd[t] \cap wr[u] = {}

\* two workers have both read and stored E in one pass of the backward kernel
\* while a third has turned its +inf cell of R into -inf
C8_Witness ==
    /\ pc = "cuda_bwd_kernel"
    /\ \E t, u, v \in Workers :
          /\ t # u /\ u # v /\ t # v
          /\ \E c \in Interior(N, M) : <<"E", c>> \in wr[t] /\ <<"R", c>> \in rd[t]
          /\ \E c \in Interior(N, M) : <<"E", c>> \in wr[u] /\ <<"R", c>> \in rd[u]
          /\ \E c \in Interior(N, M) : <<"R", c>> \in wr[v]

\* C9: with bandwidth > 0 a cell outside the band is never stored by either
\* pass of either engine: R stays +infinity through the forward pass and at
\* the return of align, E stays 0 through the backward pass and the gradient
\* returned for it is 0; with bandwidth = 0 every interior cell is computed.
C9_PrunedNeverWritten ==
    \A c \in Interior(N, M) :
        /\ Inactive(c[1], c[2], bandwidth) =>
             /\ pc = "cuda_fwd_kernel" => Rg[c] = RPosInf
             /\ Reached("cuda_fwd_kernel") => storedF[c] = <<>> /\ storedB[c] = <<>>
             /\ Reached("cuda_backward") => Rgret[c] = RPosInf
             /\ Reached("cuda_bwd_kernel") => Eg[c] = Zero
             /\ Reached("cpu_forward") => gradg[c] = Zero
             /\ pc = "cpu_fwd_loop" => R[c] = RPosInf
             /\ Reached("cpu_backward") => Rret[c] = RPosInf
             /\ Reached("cpu_bwd_loop") => E[c] = Zero
             /\ pc = "done" => grad[c] = Zero
        /\ bandwidth = 0 =>
             /\ Reached("cuda_backward") => Rgret[c] # RPosInf /\ storedF[c] # <<>>
             /\ Reached("cpu_forward") => storedB[c] # <<>>
             /\ Reached("cpu_backward") => Rret[c] # RPosInf

C9_Witness ==
    /\ pc = "done" /\ N = 3 /\ M = 2 /\ bandwidth = 1
    /\ Rret[<<3, 1>>] = RPosInf /\ E[<<3, 1>>] = Zero /\ grad[<<3, 1>>] = Zero
    /\ gradg[<<3, 1>>] = Zero /\ grad[<<2, 1>>] # Zero

\* ------------------------------------------------------------- scheduling
\* the threads of a launched block and the host thread are scheduled: a step
\* that can be taken is eventually taken
FairSpec == Spec /\ WF_vars(Next)

Frontier(c) == c[1] + c[2] - 2

C10_Lockstep ==
    LET np == 2 * Max(N, M) - 1
        Once(c) == IF Inactive(c[1], c[2], bandwidth) THEN <<>> ELSE <<Frontier(c)>>
    IN /\ InKernel =>
            /\ \A t \in Workers : pass[t] = barriers
            /\ barriers <= np
       /\ pc = "cuda_fwd_kernel" =>
            \A c \in Interior(N, M) :
                /\ storedF[c] \in {<<>>, Once(c)}
                /\ Frontier(c) < barriers => storedF[c] = Once(c)
                /\ Frontier(c) > barriers => storedF[c] = <<>>
       /\ pc = "cuda_backward" => barriers = np
       /\ Reached("cuda_backward") => \A c \in Interior(N, M) : storedF[c] = Once(c)
       /\ pc = "cuda_bwd_kernel" =>
            \A c \in Interior(N, M) :
                /\ storedB[c] \in {<<>>, Once(c)}
                /\ Frontier(c) > np - 1 - barriers => storedB[c] = Once(c)
                /\ Frontier(c) < np - 1 - barriers => storedB[c] = <<>>
       /\ pc = "cpu_forward" => barriers = np
       /\ Reached("cpu_forward") => \A c \in Interior(N, M) : storedB[c] = Once(c)

\* C10: every worker reaches every barrier, so both kernels terminate, after
\* exactly 2*max(N,M)-1 barriers; every active interior cell is computed
\* exactly once, in the pass whose frontier index is i+j-2, frontiers in
\* increasing order forward and decreasing order backward, and no worker is in
\* a frontier before all workers finished the previous one.
C10_Wavefront ==
    /\ []C10_Lockstep
    /\ (pc = "cuda_fwd_kernel") ~> (pc = "cuda_backward")
    /\ (pc = "cuda_bwd_kernel") ~> (pc = "cpu_forward")

C10_Witness ==
    /\ pc = "cpu_forward" /\ N = 2 /\ M = 3 /\ bandwidth = 1
    /\ barriers = 5
    /\ storedF[<<2, 3>>] = <<3>> /\ storedB[<<2, 3>>] = <<3>>
    /\ storedF[<<1, 3>>] = <<>>

\* ------------------------------------------------- properties of the facade
ArgumentsInvalid == gamma <= 0 \/ x_shape[1] # y_shape[1] \/ x_shape[3] # y_shape[3]

\* C4 as stated: a call with gamma <= 0, different batch sizes or different
\* feature dimensions fails as an invalid argument before any grid is allocated
C4_InvalidArgumentsRejected ==
    ArgumentsInvalid => grids = <<>> /\ pc \in {"call", "AssertionError"}

\* C4 amended: a call with different batch sizes or different feature
\* dimensions fails (an assertion) before any grid is allocated; gamma is not
\* validated, and a call with matching shapes never fails that assertion.
C4_ShapeMismatchRejected ==
    /\ (x_shape[1] # y_shape[1] \/ x_shape[3] # y_shape[3]) =>
          grids = <<>> /\ todo = <<>> /\ func = "none" /\ pc \in {"call", "AssertionError"}
    /\ (x_shape[1] = y_shape[1] /\ x_shape[3] = y_shape[3]) => pc # "AssertionError"

C4_Witness ==
    /\ pc = "AssertionError" /\ gamma > 0
    /\ x_shape[1] = y_shape[1] /\ x_shape[3] # y_shape[3]
    /\ grids = <<>>

TooLong == x_shape[2] > 1024 \/ y_shape[2] > 1024

\* C5 as stated: with the parallel backend selected and max(N, M) > 1024 the
\* call ends in a capacity error and is never computed on the sequential backend
C5_CapacityError ==
    (use_cuda /\ TooLong /\ ~ArgumentsInvalid /\ pc # "call") =>
        pc = "CapacityError" /\ grids = <<>>

\* C5 amended: with the parallel backend selected and a length above 1024 the
\* facade prints a notice and computes the result on the sequential backend,
\* on grids of the full lengths; no error is raised.  The parallel backend is
\* used exactly when it is selected and both lengths are at most 1024.
C5_FallsBackToSequential ==
    LET ok == x_shape[1] = y_shape[1] /\ x_shape[3] = y_shape[3]
    IN /\ (use_cuda /\ TooLong /\ ok /\ pc # "call") =>
            /\ func = "_SoftDTW" /\ printed
            /\ gamma # 0 => pc \in {"selected", "func_dtw", "recurrence", "returned"}
            /\ \A k \in 1 .. Len(grids) :
                  /\ grids[k][1] = "_SoftDTW"
                  /\ grids[k][2][2] \in {x_shape[2] + 2, y_shape[2] + 2}
                  /\ grids[k][2][3] \in {x_shape[2] + 2, y_shape[2] + 2}
            /\ pc = "returned" => Len(grids) = IF normalize THEN 3 ELSE 1
       /\ (ok /\ pc # "call") =>
            (func = "_SoftDTWCUDA" <=> (use_cuda /\ ~TooLong))

C5_Witness ==
    /\ pc = "returned" /\ use_cuda /\ ~normalize
    /\ x_shape[2] = 1 /\ y_shape[2] = 1025
    /\ func = "_SoftDTW" /\ printed
    /\ grids = <<<<"_SoftDTW", <<x_shape[1], 3, 1027>>>>>>

=============================================================================
